---- MODULE Spec2Model ----
(***************************************************************************)
(* Model of meters_to_ha.py: the reading normalizers of the two injectors  *)
(* (DomoticzInjector, HomeAssistantInjector) that turn a downloaded water  *)
(* CSV file or gas JSON export into backend state updates.                 *)
(*                                                                         *)
(* Time is counted in ticks; TicksPerDay ticks make one calendar day, so a *)
(* timestamp t lies on day (t \div TicksPerDay) and Python's               *)
(* timedelta.days is the floor division of a tick difference.              *)
(* The backend is assumed to answer every request in Spec (Reliable); the  *)
(* operations take the index of the failing request as a parameter.        *)
(*                                                                         *)
(* RunSpec models doWork from "Check requirements" to the exit of the      *)
(* process, with the ServiceCrawler's virtual display, browser process and *)
(* downloaded files; SessionSpec models a client that calls                *)
(* ServiceCrawler.init and ServiceCrawler.cleanup directly.                *)
(***************************************************************************)
EXTENDS Integers, Sequences, FiniteSets, TLC

VARIABLES pc, op, now, csv_file, json_file, backend, previous, sent, outcome, runs

\* the run of doWork and the ServiceCrawler it owns
VARIABLES step, attempt, args, configuration, display, browser, alive,
          files_to_cleanup, disk, log, poll_t, slept, artifact, captcha, status

\* the state of the injectors
ivars == <<pc, op, now, csv_file, json_file, backend, previous, sent, outcome, runs>>

\* the state of the run and of its crawler
cvars == <<step, attempt, args, configuration, display, browser, alive,
           files_to_cleanup, disk, log, poll_t, slept, artifact, captcha, status>>

vars == <<ivars, cvars>>

---------------------------------------------------------------------------
(* Bounds of the model *)

MaxRows == 3

MaxRecords == 3

MaxRuns == 2

---------------------------------------------------------------------------
(* Time *)

TicksPerDay == 2

\* the 30 of "abs(...days) > 30"
MaxAgeDays == 30

\* the calendar day on which the program runs
Today == 100

\* first day whose ISO date starts with "2" (2000-01-01)
Y2KDay == 50

\* today at 00:00
Midnight == Today * TicksPerDay

\* datetime.now(): the program runs today, one tick after midnight
Now == Midnight + 1

NowTimes == {Now}

Abs(x) == IF x < 0 THEN 0 - x ELSE x

\* timedelta.days of a difference of d ticks (floor, also when negative)
TimedeltaDays(d) == d \div TicksPerDay

---------------------------------------------------------------------------
(* Water CSV rows: row[0] timestamp text, row[1] counter, row[2] period    *)
(* consumption, row[3] "Mesuré" or "Estimé".                               *)

Mesure == "Mesuré"

Estime == "Estimé"

\* row[0]: an ISO timestamp at tick t, or a text that is no date (header)
DateStamp(t) == [kind |-> "date", t |-> t]

TextStamp == [kind |-> "text", t |-> 0]

\* row[0][0], the first character of the timestamp column
FirstChar(stamp) ==
    IF stamp.kind = "text" THEN "D"
    ELSE IF stamp.t < Y2KDay * TicksPerDay THEN "1" ELSE "2"

\* datetime.strptime(row[0][0:10], "%Y-%m-%d"): midnight of the row's day
StrpDate(stamp) == (stamp.t \div TicksPerDay) * TicksPerDay

\* row[0][0:10], the date without the time of day
DateText(stamp) == stamp.t \div TicksPerDay

WaterDays == {Today - 31, Today - 30, Today, Today + 30, Today + 31, Y2KDay - 10}

WaterStamps == {DateStamp(d * TicksPerDay + 1) : d \in WaterDays} \cup {TextStamp}

\* the period consumption and the counter of the i-th row of a file: the
\* counter is the running sum of the period values
PeriodOf(i) == i

CounterOf(i) == 1000 + (i * (i + 1)) \div 2

WaterRow(i, stamp, method) ==
    [stamp |-> stamp, counter |-> CounterOf(i), conso |-> PeriodOf(i), method |-> method]

\* the file of n rows with timestamps s[1..n] and quality tags m[1..n]
WaterFile(n, s, m) == [i \in 1..n |-> WaterRow(i, s[i], m[i])]

---------------------------------------------------------------------------
(* Outcome of an injector operation: it returns, or raises.                *)

OK == "ok"

IndexError == "IndexError"

UnboundLocalError == "UnboundLocalError"

ErrEstimated == "RuntimeError: File contains estimated data in last lines"

ErrTooOld == "RuntimeError: File contains too old data (monthly?!?)"

ErrUrl == "RuntimeError: url"

Result(o, s) == [outcome |-> o, sent |-> s]

\* Injector.open_url called for each request of reqs in turn; the fail-th
\* call of the operation raises (fail = 0: the backend answers them all).
\* base is the number of calls the operation made before these.
open_url(reqs, base, fail) ==
    IF fail > base /\ fail <= base + Len(reqs)
    THEN Result(ErrUrl, SubSeq(reqs, 1, fail - base))
    ELSE Result(OK, reqs)

\* the data-integrity test "abs((d2 - d1).days) > 30" on a water row
TooOld(stamp, t_now) == Abs(TimedeltaDays(t_now - StrpDate(stamp))) > MaxAgeDays

---------------------------------------------------------------------------
(* HomeAssistantInjector.update_veolia_device                              *)

\* variant: the update carries the date of the row, not its timestamp
HaWaterReq_dateOnly(sensor, state, stamp) ==
    [http |-> "POST", req |-> sensor, state |-> state,
     date_time |-> DateStamp(StrpDate(stamp))]

HaWaterReq(sensor, state, stamp) ==
    [http |-> "POST", req |-> sensor, state |-> state, date_time |-> stamp]

\* index of the row the normalizer keeps: the last one, or the one before
\* when the last one is estimated; 0 when indexing the list raises
\* variant: the row before the last one is never tried
HaSelected_lastOnly(rows) == IF Len(rows) < 2 THEN 0 ELSE Len(rows)

HaSelected(rows) ==
    LET n == Len(rows) IN
    IF n < 2 THEN 0
    ELSE IF rows[n].method = Estime
         THEN (IF n < 3 THEN 0 ELSE n - 1)
         ELSE n

\* variant: the kept row is not tested for "Estimé"
HA_update_veolia_device_noMethodTest(rows, t_now, fail) ==
    LET sel == HaSelected(rows) IN
    IF sel = 0 THEN Result(IndexError, <<>>)
    ELSE LET row == rows[sel] IN
         IF FirstChar(row.stamp) = "2"
         THEN IF TooOld(row.stamp, t_now)
              THEN Result(ErrTooOld, <<>>)
              ELSE open_url(<< HaWaterReq("veolia_total", row.counter, row.stamp),
                               HaWaterReq("veolia_period_total", row.conso, row.stamp) >>,
                            0, fail)
         ELSE Result(OK, <<>>)

HA_update_veolia_device(rows, t_now, fail) ==
    LET sel == HaSelected(rows) IN
    IF sel = 0 THEN Result(IndexError, <<>>)
    ELSE LET row == rows[sel] IN
         IF row.method = Estime THEN Result(ErrEstimated, <<>>)
         ELSE IF FirstChar(row.stamp) = "2"
              THEN IF TooOld(row.stamp, t_now)
                   THEN Result(ErrTooOld, <<>>)
                   ELSE open_url(<< HaWaterReq("veolia_total", row.counter, row.stamp),
                                    HaWaterReq("veolia_period_total", row.conso, row.stamp) >>,
                                 0, fail)
              ELSE Result(OK, <<>>)

---------------------------------------------------------------------------
(* DomoticzInjector.update_veolia_device                                   *)

\* the three URLs built for a row: svalue "counter;conso;date",
\* "counter;conso;date_time" and "conso"
DzHistorique(row) ==
    [req |-> "historique", counter |-> row.counter, conso |-> row.conso,
     date |-> DateText(row.stamp)]

DzDaily(row) ==
    [req |-> "daily", counter |-> row.counter, conso |-> row.conso,
     date_time |-> row.stamp]

DzCurrent(row) == [req |-> "current", conso |-> row.conso]

\* the loop over the rows from row i on; s: requests issued so far,
\* last: index of the row url_current and url_daily were built from (0: unbound)
RECURSIVE DzLoop(_, _, _, _, _, _)
DzLoop(rows, i, s, last, t_now, fail) ==
    IF i > Len(rows)
    THEN IF last = 0
         THEN Result(UnboundLocalError, s)
         ELSE LET r == open_url(<<DzCurrent(rows[last]), DzDaily(rows[last])>>, Len(s), fail)
              IN Result(r.outcome, s \o r.sent)
    ELSE LET row == rows[i] IN
         IF row.method = Estime
         THEN DzLoop(rows, i + 1, s, last, t_now, fail)
         ELSE IF FirstChar(row.stamp) \in {"2", "1"}
              THEN IF TooOld(row.stamp, t_now)
                   THEN Result(ErrTooOld, s)
                   ELSE LET r == open_url(<<DzHistorique(row)>>, Len(s), fail) IN
                        IF r.outcome # OK
                        THEN Result(r.outcome, s \o r.sent)
                        ELSE DzLoop(rows, i + 1, s \o r.sent, i, t_now, fail)
              ELSE DzLoop(rows, i + 1, s, last, t_now, fail)

Dz_update_veolia_device(rows, t_now, fail) == DzLoop(rows, 1, <<>>, 0, t_now, fail)

---------------------------------------------------------------------------
(* Gas JSON export: data[pce]["releves"], one record per day with          *)
(* dateFinReleve, qualificationReleve, energieConsomme (kWh of the day)    *)
(* and indexFin (m3 index at the end of the day).                          *)

\* dateFinReleve of the records, in ticks relative to now
GasOffsets ==
    { 0 - (MaxAgeDays * TicksPerDay + 1), 0 - (MaxAgeDays * TicksPerDay),
      0 - 2 * TicksPerDay, 0 - TicksPerDay,
      MaxAgeDays * TicksPerDay + 1, (MaxAgeDays + 1) * TicksPerDay }

GasTimes == {Now + o : o \in GasOffsets}

RECURSIVE Pow2(_)
Pow2(n) == IF n = 0 THEN 1 ELSE 2 * Pow2(n - 1)

\* the daily energy and the end index of the i-th record of a file
EnergyOf(i) == Pow2(i - 1)

IndexFinOf(i) == 500 + Pow2(i) - 1

Releve(i, t, q) ==
    [dateFinReleve |-> t, qualificationReleve |-> q,
     energieConsomme |-> EnergyOf(i), indexFin |-> IndexFinOf(i)]

\* the export of n records with end dates t[1..n] and quality tags q[1..n]
GasFile(n, t, q) == [i \in 1..n |-> Releve(i, t[i], q[i])]

\* a value that is absent (None, or a key that is not in the response)
None == 0 - 1

\* The state of sensor.gas_consumption_kwh in Home Assistant, as the GET
\* answers it: "state", attributes "date_time" and "meter_m3", and the
\* "last_changed" / "last_updated" fields.
KwhState(state, date_time, last_changed, last_updated, meter_m3) ==
    [state |-> state, date_time |-> date_time, last_changed |-> last_changed,
     last_updated |-> last_updated, meter_m3 |-> meter_m3]

NoKwhState == KwhState(None, None, None, None, None)

\* what the backend holds before the first run: kwh sensor and m3 sensor state
BackendStates ==
    { [kwh |-> NoKwhState, m3 |-> None],
      [kwh |-> NoKwhState, m3 |-> 500],
      [kwh |-> KwhState(100, None, None, None, None), m3 |-> 500],
      [kwh |-> KwhState(100, None, None, Now - 2 * TicksPerDay, None), m3 |-> 500],
      [kwh |-> KwhState(100, None, Now - TicksPerDay, Now - 2 * TicksPerDay, None), m3 |-> 500],
      [kwh |-> KwhState(100, Now - 2 * TicksPerDay, Now - TicksPerDay, Now - TicksPerDay, 500), m3 |-> 500] }
    \cup { [kwh |-> KwhState(100, t, Now - TicksPerDay, Now - TicksPerDay, None), m3 |-> 500] :
             t \in {Now - (MaxAgeDays + 1) * TicksPerDay, Now - 2 * TicksPerDay,
                    Now - TicksPerDay} }

GasReq(http, sensor, state, date_time) ==
    [http |-> http, req |-> sensor, state |-> state, date_time |-> date_time]

\* lines 1869-1889: what the first GET's answer gives as previous_kWh,
\* current_total_kWh, previous_date and previous_m3
PreviousOf(kwh, t_now) ==
    IF kwh.state # None
    THEN [kWh |-> kwh.state,
          total |-> kwh.state,
          date |-> IF kwh.date_time # None THEN kwh.date_time
                   ELSE IF kwh.last_changed # None THEN kwh.last_changed
                   ELSE IF kwh.last_updated # None THEN kwh.last_updated
                   ELSE t_now - TicksPerDay,
          m3 |-> kwh.meter_m3]
    ELSE [kWh |-> None, total |-> 0, date |-> t_now - TicksPerDay, m3 |-> None]

\* variant: a record dated exactly previous_date is added again (>=)
RECURSIVE GrdfLoop_ge(_, _, _, _, _, _)
GrdfLoop_ge(releves, i, total, sel, previous_date, t_now) ==
    IF i > Len(releves) THEN [outcome |-> OK, total |-> total, sel |-> sel]
    ELSE LET row == releves[i]
             t == row.dateFinReleve
             tot == IF t >= previous_date THEN total + row.energieConsomme ELSE total
         IN IF row.qualificationReleve # Mesure
            THEN GrdfLoop_ge(releves, i + 1, total, sel, previous_date, t_now)
            ELSE IF sel # 0 /\ t < releves[sel].dateFinReleve
                 THEN GrdfLoop_ge(releves, i + 1, tot, sel, previous_date, t_now)
                 ELSE IF Abs(TimedeltaDays(t - t_now)) > MaxAgeDays
                      THEN [outcome |-> ErrTooOld, total |-> tot, sel |-> sel]
                      ELSE GrdfLoop_ge(releves, i + 1, tot, i, previous_date, t_now)

\* variant: the last measured record of the file is kept, not the most recent
RECURSIVE GrdfLoop_lastInFile(_, _, _, _, _, _)
GrdfLoop_lastInFile(releves, i, total, sel, previous_date, t_now) ==
    IF i > Len(releves) THEN [outcome |-> OK, total |-> total, sel |-> sel]
    ELSE LET row == releves[i]
             t == row.dateFinReleve
             tot == IF t > previous_date THEN total + row.energieConsomme ELSE total
         IN IF row.qualificationReleve # Mesure
            THEN GrdfLoop_lastInFile(releves, i + 1, total, sel, previous_date, t_now)
            ELSE IF Abs(TimedeltaDays(t - t_now)) > MaxAgeDays
                 THEN [outcome |-> ErrTooOld, total |-> tot, sel |-> sel]
                 ELSE GrdfLoop_lastInFile(releves, i + 1, tot, i, previous_date, t_now)

\* variant: the quality of a record is not tested
RECURSIVE GrdfLoop_noSkip(_, _, _, _, _, _)
GrdfLoop_noSkip(releves, i, total, sel, previous_date, t_now) ==
    IF i > Len(releves) THEN [outcome |-> OK, total |-> total, sel |-> sel]
    ELSE LET row == releves[i]
             t == row.dateFinReleve
             tot == IF t > previous_date THEN total + row.energieConsomme ELSE total
         IN IF sel # 0 /\ t < releves[sel].dateFinReleve
            THEN GrdfLoop_noSkip(releves, i + 1, tot, sel, previous_date, t_now)
            ELSE IF Abs(TimedeltaDays(t - t_now)) > MaxAgeDays
                 THEN [outcome |-> ErrTooOld, total |-> tot, sel |-> sel]
                 ELSE GrdfLoop_noSkip(releves, i + 1, tot, i, previous_date, t_now)

\* lines 1903-1939: the loop over the records from record i on.
\* total: current_total_kWh; sel: index of the record date_time,
\* meter_m3_total and meter_kWh_day were taken from (0: date_time is None)
RECURSIVE GrdfLoop(_, _, _, _, _, _)
GrdfLoop(releves, i, total, sel, previous_date, t_now) ==
    IF i > Len(releves) THEN [outcome |-> OK, total |-> total, sel |-> sel]
    ELSE LET row == releves[i]
             t == row.dateFinReleve
             tot == IF t > previous_date THEN total + row.energieConsomme ELSE total
         IN IF row.qualificationReleve # Mesure
            THEN GrdfLoop(releves, i + 1, total, sel, previous_date, t_now)
            ELSE IF sel # 0 /\ t < releves[sel].dateFinReleve
                 THEN GrdfLoop(releves, i + 1, tot, sel, previous_date, t_now)
                 ELSE IF Abs(TimedeltaDays(t - t_now)) > MaxAgeDays
                      THEN [outcome |-> ErrTooOld, total |-> tot, sel |-> sel]
                      ELSE GrdfLoop(releves, i + 1, tot, i, previous_date, t_now)

\* lines 1941-2007: the six state updates
GrdfUpdates(releves, total, sel) ==
    LET dt == releves[sel].dateFinReleve
        m3 == releves[sel].indexFin
        day == releves[sel].energieConsomme
    IN << GasReq("POST", "gas_consumption_m3", m3, dt),
          GasReq("POST", "grdf_pce_m3", m3, dt),
          GasReq("POST", "gas_daily_kwh", day, dt),
          GasReq("POST", "grdf_pce_daily_kwh", day, dt),
          GasReq("POST", "gas_consumption_kwh", total, dt),
          GasReq("POST", "grdf_pce_kwh", total, dt) >>

\* HomeAssistantInjector.update_grdf_device; b is the backend's state.
\* The result also carries what the run logged as "Previous ...".
update_grdf_device(releves, b, t_now, fail) ==
    LET get1 == open_url(<<GasReq("GET", "gas_consumption_kwh", None, None)>>, 0, fail)
        prev0 == PreviousOf(b.kwh, t_now)
        get2 == IF prev0.m3 = None
                THEN open_url(<<GasReq("GET", "gas_consumption_m3", None, None)>>, 1, fail)
                ELSE Result(OK, <<>>)
        prev == IF prev0.m3 = None THEN [prev0 EXCEPT !.m3 = b.m3] ELSE prev0
        gets == get1.sent \o get2.sent
        loop == GrdfLoop(releves, 1, prev.total, 0, prev.date, t_now)
        NoPrev == [kWh |-> None, total |-> 0, date |-> None, m3 |-> None]
    IN IF get1.outcome # OK
       THEN [outcome |-> get1.outcome, sent |-> get1.sent, previous |-> NoPrev]
       ELSE IF get2.outcome # OK
       THEN [outcome |-> get2.outcome, sent |-> gets, previous |-> NoPrev]
       ELSE IF loop.outcome # OK
       THEN [outcome |-> loop.outcome, sent |-> gets, previous |-> prev]
       ELSE IF loop.sel = 0
       THEN [outcome |-> OK, sent |-> gets, previous |-> prev]
       ELSE LET r == open_url(GrdfUpdates(releves, loop.total, loop.sel), Len(gets), fail)
            IN [outcome |-> r.outcome, sent |-> gets \o r.sent, previous |-> prev]

\* variant: the total is written by one request and its date_time by a
\* later one, which an interruption separates
RECURSIVE Apply_tornPair(_, _, _, _)
Apply_tornPair(b, s, ok, t_now) ==
    IF s = <<>> THEN b
    ELSE LET r == Head(s)
             done == Len(s) > 1 \/ ok
             b1 == IF r.http = "POST" /\ done /\ r.req = "gas_consumption_kwh"
                   THEN [b EXCEPT !.kwh = KwhState(r.state,
                                                   IF Len(s) > 1 THEN b.kwh.date_time ELSE r.date_time,
                                                   t_now, t_now, None)]
                   ELSE IF r.http = "POST" /\ Len(s) = 1 /\ ok /\ r.req = "grdf_pce_kwh"
                   THEN [b EXCEPT !.kwh.date_time = r.date_time]
                   ELSE IF r.http = "POST" /\ done /\ r.req = "gas_consumption_m3"
                   THEN [b EXCEPT !.m3 = r.state]
                   ELSE b
         IN Apply_tornPair(b1, Tail(s), ok, t_now)

\* Home Assistant after the requests of s: a POST that was answered sets the
\* sensor's state and attributes and stamps last_changed / last_updated
RECURSIVE Apply(_, _, _, _)
Apply(b, s, ok, t_now) ==
    IF s = <<>> THEN b
    ELSE LET r == Head(s)
             done == Len(s) > 1 \/ ok
             b1 == IF r.http = "POST" /\ done /\ r.req = "gas_consumption_kwh"
                   THEN [b EXCEPT !.kwh = KwhState(r.state, r.date_time, t_now, t_now, None)]
                   ELSE IF r.http = "POST" /\ done /\ r.req = "gas_consumption_m3"
                   THEN [b EXCEPT !.m3 = r.state]
                   ELSE b
         IN Apply(b1, Tail(s), ok, t_now)

---------------------------------------------------------------------------
(* doWork, lines 2257-2306: the run exits with status 2 when the injector  *)
(* raised (exit_on_error) and with status 0 when it returned.              *)

ExitStatus(o) == IF o = OK THEN 0 ELSE 2

---------------------------------------------------------------------------
(* ServiceCrawler: the virtual display, the browser process and the        *)
(* downloaded files. A world w is the crawler's fields (display, browser,  *)
(* files_to_cleanup) together with what exists outside the program: the    *)
(* processes that are alive, the files on disk, and the calls made so far. *)

\* the value of a field that holds no object
NoObject == "None"

\* the Display of init_firefox and the Display of init_chromium
FirefoxDisplay == "Display(firefox)"

ChromiumDisplay == "Display(chromium)"

Displays == {FirefoxDisplay, ChromiumDisplay}

\* the webdriver of init_firefox and the webdriver of init_chromium
Firefox == "webdriver.Firefox"

Chromium == "webdriver.Chrome"

Browsers == {Firefox, Chromium}

\* the step of init_firefox / init_chromium that raises ("none": it returns)
InitFaults == {"none", "display", "browser", "window"}

download_veolia_filename == "historique_jours_litres.csv"

download_grdf_filename == "historique_gazpar.json"

\* one call made by the program
Ev(call, arg) == [call |-> call, arg |-> arg]

Logged(w, call, arg) == [w EXCEPT !.log = Append(@, Ev(call, arg))]

\* how a method ends: it returns, or it raises an exception
Returned(w) == [w |-> w, raised |-> FALSE]

Raised(w) == [w |-> w, raised |-> TRUE]

NewCrawler ==
    [display |-> NoObject, browser |-> NoObject, alive |-> {},
     files_to_cleanup |-> <<>>, disk |-> {}, log |-> <<>>]

\* lines 419-502: the Display is assigned before it is started, the browser
\* is assigned when webdriver.Firefox returned, set_window_size comes last
init_firefox(w, fault) ==
    LET w1 == [Logged(w, "init_firefox", FirefoxDisplay) EXCEPT !.display = FirefoxDisplay]
        w2 == [w1 EXCEPT !.alive = @ \cup {FirefoxDisplay}]
        w3 == [w2 EXCEPT !.browser = Firefox, !.alive = @ \cup {Firefox}]
    IN
    IF fault = "display" THEN Raised(w1)
    ELSE IF fault = "browser" THEN Raised(w2)
    ELSE IF fault = "window" THEN Raised(w3)
    ELSE Returned(w3)

\* lines 504-593: the same steps with a new Display and webdriver.Chrome;
\* the fields are overwritten, whatever they held
init_chromium(w, fault) ==
    LET w1 == [Logged(w, "init_chromium", ChromiumDisplay) EXCEPT !.display = ChromiumDisplay]
        w2 == [w1 EXCEPT !.alive = @ \cup {ChromiumDisplay}]
        w3 == [w2 EXCEPT !.browser = Chromium, !.alive = @ \cup {Chromium}]
    IN
    IF fault = "display" THEN Raised(w1)
    ELSE IF fault = "browser" THEN Raised(w2)
    ELSE IF fault = "window" THEN Raised(w3)
    ELSE Returned(w3)

\* lines 410-416: Firefox, and Chromium when init_firefox raised
init(w, ff, ch) ==
    LET r == init_firefox(w, ff) IN
    IF r.raised THEN init_chromium(Logged(r.w, "raise", "init_firefox"), ch) ELSE r

\* lines 705-716: the loop over files_to_cleanup, from entry i on
RECURSIVE RemoveFiles(_, _, _, _)
RemoveFiles(w, i, debug, keep_output) ==
    IF i > Len(w.files_to_cleanup) THEN w
    ELSE LET fn == w.files_to_cleanup[i] IN
         IF ~debug /\ ~keep_output /\ fn \in w.disk
         THEN RemoveFiles([Logged(w, "remove", fn) EXCEPT !.disk = @ \ {fn}],
                          i + 1, debug, keep_output)
         ELSE RemoveFiles(w, i + 1, debug, keep_output)

\* lines 677-694: quit the browser and, in the finally clause, signal its
\* process; an exception raised by quit leaves cleanup after the finally
CloseBrowser(w, quit_raises) ==
    IF w.browser = NoObject THEN Returned(w)
    ELSE LET w1 == Logged(w, "quit", w.browser)
             w2 == [Logged(w1, "kill", w.browser) EXCEPT !.alive = @ \ {w.browser}]
         IN IF quit_raises THEN Raised(w2) ELSE Returned(w2)

\* lines 696-703
CloseDisplay(w) ==
    IF w.display = NoObject THEN w
    ELSE [Logged(w, "stop", w.display) EXCEPT !.alive = @ \ {w.display}]

\* lines 675-716; debug is the crawler's _debug
cleanup(w, debug, keep_output, quit_raises) ==
    LET b == CloseBrowser(Logged(w, "cleanup", IF keep_output THEN "keep" ELSE "remove"),
                          quit_raises)
    IN
    IF b.raised THEN b
    ELSE Returned(RemoveFiles(CloseDisplay(b.w), 1, debug, keep_output))

\* line 1185: the test of the download polling loop
PollAgain_offByOne(t_left, exists) == t_left >= 0 /\ ~exists

PollAgain(t_left, exists) == t_left > 0 /\ ~exists

---------------------------------------------------------------------------
(* resolve_captcha2, lines 802-1016. The solver service is an input: its   *)
(* answer to the submission of the task, and its answers to the polls: it  *)
(* answers "not ready" to the first not_ready polls and then gives the     *)
(* same answer to every later poll.                                        *)

PARAM_2CAPTCHA_TOKEN == "2captcha_token"

PARAM_CAPMONSTER_TOKEN == "capmonster_token"

CAPTCHA_TOKENS_2captchaFirst == <<PARAM_2CAPTCHA_TOKEN, PARAM_CAPMONSTER_TOKEN>>

CAPTCHA_TOKENS == <<PARAM_CAPMONSTER_TOKEN, PARAM_2CAPTCHA_TOKEN>>

\* a token of the configuration: absent (None), empty, or a key
TokenValues == {NoObject, "", "key"}

Tokens == [{PARAM_CAPMONSTER_TOKEN, PARAM_2CAPTCHA_TOKEN} -> TokenValues]

NoTokens == [k \in {PARAM_CAPMONSTER_TOKEN, PARAM_2CAPTCHA_TOKEN} |-> NoObject]

\* "max_loops = 12"
max_loops == 12

\* "time.sleep(10)" before each poll
poll_interval == 10

\* the answer to the submission: the task is accepted, the service reports
\* an error code, the HTTP status is not 200 (with the body the service
\* sends on an error), or the body is not what the service documents
SubmitAnswers == {"accepted", "error", "http_error", "malformed"}

\* the answer to a poll: the solution, "not ready yet", an error code that
\* ends the task, or an HTTP status other than 200
PollAnswers == {"ready", "not_ready", "error", "http_error"}

\* how many polls are answered "not ready" first
NotReadyFirst == {0, 1, max_loops - 1}

Solvers == [submit : SubmitAnswers, not_ready : NotReadyFirst, then : PollAnswers]

NoSolver == [submit |-> "accepted", not_ready |-> 0, then |-> "not_ready"]

\* the answer to the i-th poll
AnswerAt(solver, i) == IF i <= solver.not_ready THEN "not_ready" ELSE solver.then

\* lines 869 and 911: the service each method talks to
ServiceOf(method) ==
    IF method = PARAM_2CAPTCHA_TOKEN THEN "2captcha.com"
    ELSE IF method = PARAM_CAPMONSTER_TOKEN THEN "api.capmonster.cloud"
    ELSE NoObject

\* lines 989-993: FILL_CAPTCHA_TEMPLATE.format(captcha_results), the value
\* the script writes into the field g-recaptcha-response
FillValue(captcha_results) == captcha_results

\* lines 994-999: VALIDATE_JS is appended as it is written, its placeholder
\* is not formatted: the argument the script passes to the page's callback
ValidateArg(captcha_results) == "{captcha_results}"

\* what one call of resolve_captcha2 did: the solver it chose, the value it
\* returned (or that it raised), the requests it sent and to which service,
\* the polls among them and the seconds slept before them, and the scripts
\* it ran in the browser, with what the second one wrote into the response
\* field and passed to the callback; solver is what the service answered
Captcha(method, solver, result, requests, polls, waited, scripts, raised) ==
    [called |-> TRUE, method |-> method, result |-> result,
     requests |-> requests, scripts |-> scripts,
     polls |-> polls, waited |-> waited,
     services |-> IF requests > 0 THEN {ServiceOf(method)} ELSE {},
     raised |-> raised, solver |-> solver,
     field |-> IF scripts >= 2 THEN FillValue(result) ELSE NoObject,
     callback |-> IF scripts >= 2 THEN ValidateArg(result) ELSE NoObject]

NoCaptcha ==
    [called |-> FALSE, method |-> NoObject, result |-> NoObject,
     requests |-> 0, scripts |-> 0, polls |-> 0, waited |-> 0,
     services |-> {}, raised |-> FALSE, solver |-> NoSolver,
     field |-> NoObject, callback |-> NoObject]

\* line 808
Configured_notNone(key) == key /= NoObject

Configured(key) == key /= NoObject /\ key /= ""

\* lines 805-810: the first configured token of CAPTCHA_TOKENS, from entry i on
RECURSIVE CaptchaMethod(_, _)
CaptchaMethod(tokens, i) ==
    IF i > Len(CAPTCHA_TOKENS) THEN NoObject
    ELSE IF Configured(tokens[CAPTCHA_TOKENS[i]]) THEN CAPTCHA_TOKENS[i]
    ELSE CaptchaMethod(tokens, i + 1)

\* lines 878-884 and 926-942: what the answer to the submission leads to.
\* 2captcha: anything but "OK..." returns None. capmonster: a status other
\* than 200 returns None, then response.json() and resp_data["error_id"]
\* raise on a body that is not the documented JSON, then an error code
\* returns None.
SubmitVerdict(method, answer) ==
    IF method = PARAM_2CAPTCHA_TOKEN
    THEN IF answer = "accepted" THEN "poll" ELSE "return"
    ELSE IF answer = "http_error" THEN "return"
         ELSE IF answer = "malformed" THEN "raise"
         ELSE IF answer = "error" THEN "return"
         ELSE "poll"

\* lines 903-910 and 959-986: what the answer to a poll leads to.
\* 2captcha: "OK..." is the solution, any other text polls again.
\* capmonster: a status other than 200 polls again, an error code returns
\* None, "ready" is the solution, anything else polls again.
PollVerdict(method, answer) ==
    IF method = PARAM_2CAPTCHA_TOKEN
    THEN IF answer = "ready" THEN "break" ELSE "continue"
    ELSE IF answer = "http_error" THEN "continue"
         ELSE IF answer = "error" THEN "return"
         ELSE IF answer = "ready" THEN "break"
         ELSE "continue"

\* lines 897 and 953: "while max_loops > 0"
LoopContinues_oneMore(loops_left) == loops_left >= 0

LoopContinues(loops_left) == loops_left > 0

\* lines 895-910 and 951-986: the polling loop with loops_left turns left,
\* after polls polls and waited seconds of sleep; each turn sleeps, then
\* sends one poll
RECURSIVE PollLoop(_, _, _, _, _)
PollLoop(method, solver, loops_left, polls, waited) ==
    IF ~LoopContinues(loops_left)
    THEN [result |-> NoObject, polls |-> polls, waited |-> waited]
    ELSE LET verdict == PollVerdict(method, AnswerAt(solver, polls + 1)) IN
         IF verdict = "break"
         THEN [result |-> "g-recaptcha-response", polls |-> polls + 1,
               waited |-> waited + poll_interval]
         ELSE IF verdict = "return"
         THEN [result |-> NoObject, polls |-> polls + 1,
               waited |-> waited + poll_interval]
         ELSE PollLoop(method, solver, loops_left - 1, polls + 1,
                       waited + poll_interval)

\* one script (GET_KEY, line 850) before the submission, one more (line
\* 1002) when a solution came back
resolve_captcha2(tokens, solver) ==
    LET method == CaptchaMethod(tokens, 1)
        verdict == SubmitVerdict(method, solver.submit)
        p == PollLoop(method, solver, max_loops, 0, 0)
    IN
    IF method = NoObject
    THEN Captcha(method, solver, NoObject, 0, 0, 0, 0, FALSE)
    ELSE IF verdict = "raise"
    THEN Captcha(method, solver, NoObject, 1, 0, 0, 1, TRUE)
    ELSE IF verdict = "return"
    THEN Captcha(method, solver, NoObject, 1, 0, 0, 1, FALSE)
    ELSE Captcha(method, solver, p.result, 1 + p.polls, p.polls, p.waited,
                 IF p.result = NoObject THEN 1 ELSE 2, FALSE)

---------------------------------------------------------------------------
(* exit_on_error, lines 2015-2052, called with the workers: the crawler's  *)
(* cleanup gets debug as its keep_output argument; the injectors' cleanup  *)
(* does nothing. An exception of cleanup is caught nowhere: the            *)
(* interpreter ends with the status of an uncaught exception.              *)

\* sys.exit(2)
ExitError == 2

\* the exit status of the interpreter on an uncaught exception
ExitUncaught == 1

exit_on_error(w, string, debug, quit_raises) ==
    LET r == cleanup(Logged(w, "exit_on_error", string), debug, debug, quit_raises) IN
    [w |-> r.w, status |-> IF r.raised THEN ExitUncaught ELSE ExitError]

\* lines 2260-2271 and 2284-2294: where doWork goes when a crawl attempt
\* ended
AfterCrawl_injectAnyway(n, ok) == "inject"

AfterCrawl(n, ok) ==
    IF ok THEN "inject" ELSE IF n = 1 THEN "crawl" ELSE "exit"

---------------------------------------------------------------------------
(* get_screenshot, lines 786-800: the except clause logs the exception of  *)
(* get_screenshot_as_file and the method returns; the image is on the disk *)
(* when the browser wrote it.                                              *)

get_screenshot_propagates(w, basename, fails) ==
    LET w1 == Logged(w, "get_screenshot", basename) IN
    IF fails THEN Raised(w1) ELSE Returned([w1 EXCEPT !.disk = @ \cup {basename}])

get_screenshot(w, basename, fails) ==
    LET w1 == Logged(w, "get_screenshot", basename) IN
    IF fails THEN Returned(w1) ELSE Returned([w1 EXCEPT !.disk = @ \cup {basename}])

---------------------------------------------------------------------------
(* get_gazpar_file, lines 1197-1364. The portal and the solver are inputs: *)
(* whether the session is logged in, whether the cookie banner shows, what *)
(* the solver answers, which call of the browser raises, and whether the   *)
(* screenshot fails.                                                       *)

site_grdf_url == "https://monespace.grdf.fr/client/particulier/consommation"

data_url == "https://monespace.grdf.fr/api/e-conso/pce/consommation/informatives"

PARAM_GRDF_LOGIN == "grdf_login"

PARAM_GRDF_PASSWORD == "grdf_password"

\* the call that raises: none, the first page load (line 1208), the wait
\* for the login form (lines 1252-1268), the click on the challenge
\* checkbox (lines 1302-1306), the click on Connexion (line 1325), or the
\* read of the data (line 1352)
GasFaults == {"none", "get", "login_form", "checkbox", "connexion", "data"}

GasEnvs ==
    [isLoggedIn : BOOLEAN, deny_banner : BOOLEAN, solver : Solvers,
     fault : GasFaults, shot_fails : BOOLEAN]

\* line 1223: "if not isLoggedIn"
NeedsLogin_always(isLoggedIn) == TRUE

NeedsLogin(isLoggedIn) == ~isLoggedIn

\* line 1290: "if self.resolve_captcha2() is not None"
TokenPath_always(result) == TRUE

TokenPath(result) == result /= NoObject

\* how get_gazpar_file ends in the world w: c is what resolve_captcha2 did,
\* NoCaptcha when it was not called
GasRaised(w, c) ==
    [w |-> Logged(w, "get_gazpar_file", "raised"), raised |-> TRUE, captcha |-> c]

\* lines 1334-1364: the data endpoint, then the file
GasData(w, c, fault) ==
    LET g_file == download_grdf_filename
        w1 == Logged(w, "browser.get", data_url)
    IN
    IF fault = "data" THEN GasRaised(w1, c)
    ELSE [w |-> [Logged(w1, "get_gazpar_file", g_file) EXCEPT
                     !.files_to_cleanup = Append(@, g_file),
                     !.disk = @ \cup {g_file}],
          raised |-> FALSE, captcha |-> c]

\* lines 1320-1332: the optional screenshot, then the click on Connexion
GasConnexion(w, c, screenshot, e) ==
    LET s == IF screenshot
             THEN get_screenshot(w, "screen_before_connection.png", e.shot_fails)
             ELSE Returned(w)
    IN
    IF s.raised THEN GasRaised(s.w, c)
    ELSE IF e.fault = "connexion" THEN GasRaised(s.w, c)
    ELSE GasData(Logged(s.w, "click", "Connexion"), c, e.fault)

\* lines 1289-1318: the solver, then the token path or the checkbox path
GasCaptcha(w, debug, conf, e) ==
    LET c == resolve_captcha2(conf.tokens, e.solver)
        w1 == IF c.scripts >= 1 THEN Logged(w, "execute_script", "GET_KEY") ELSE w
        w2 == IF c.scripts >= 2 THEN Logged(w1, "execute_script", "FILL_CAPTCHA") ELSE w1
        w3 == Logged(w2, "resolve_captcha2", IF c.raised THEN "raised" ELSE c.result)
    IN
    IF c.raised THEN GasRaised(w3, c)
    ELSE IF TokenPath(c.result)
    THEN GasConnexion(Logged(w3, "sleep", "2"), c, conf.screenshot, e)
    ELSE IF e.fault = "checkbox" THEN GasRaised(w3, c)
    ELSE GasConnexion(Logged(Logged(w3, "click", "recaptcha-checkbox-border"),
                             "sleep", IF debug THEN "30" ELSE "2"),
                      c, conf.screenshot, e)

\* lines 1223-1280: the cookie banner, the login page and the credentials
GasLogin(w, debug, conf, e) ==
    LET w1 == IF e.deny_banner THEN Logged(w, "click", "btn_option_deny_banner") ELSE w
        w2 == Logged(w1, "browser.get", site_grdf_url)
        w3 == Logged(Logged(w2, "send_keys", PARAM_GRDF_LOGIN),
                     "send_keys", PARAM_GRDF_PASSWORD)
    IN
    IF e.fault = "login_form" THEN GasRaised(w2, NoCaptcha)
    ELSE GasCaptcha(w3, debug, conf, e)

get_gazpar_file(w, debug, conf, e) ==
    LET w1 == Logged(w, "browser.get", site_grdf_url)
        w2 == Logged(w1, "isLoggedIn", IF e.isLoggedIn THEN "True" ELSE "False")
    IN
    IF e.fault = "get" THEN GasRaised(w1, NoCaptcha)
    ELSE IF NeedsLogin(e.isLoggedIn) THEN GasLogin(w2, debug, conf, e)
    ELSE GasData(w2, NoCaptcha, e.fault)

---------------------------------------------------------------------------
(* The constructors of the workers, lines 2222-2244: the crawler's         *)
(* configuration has a default for every parameter, the injector's has     *)
(* mandatory ones (lines 1398-1400 and 1667-1669).                         *)

PARAM_HA_SERVER == "ha_server"

PARAM_HA_TOKEN == "ha_token"

PARAM_DOMOTICZ_VEOLIA_IDX == "domoticz_idx"

PARAM_DOMOTICZ_SERVER == "domoticz_server"

\* the parameters whose default is None
Mandatory_none(server_type) == {}

Mandatory(server_type) ==
    IF server_type = "ha" THEN {PARAM_HA_SERVER, PARAM_HA_TOKEN}
    ELSE {PARAM_DOMOTICZ_VEOLIA_IDX, PARAM_DOMOTICZ_SERVER}

\* lines 180-201: raises when a mandatory parameter is not in the file;
\* absent are the parameters the file does not give
load_configuration_items(w, server_type, absent) ==
    IF Mandatory(server_type) \cap absent /= {} THEN Raised(w) ELSE Returned(w)

\* the step of sanity_check that raises: none, the test of the download
\* location (lines 599-614), or the search of the executables (lines
\* 621-653), which comes after it
SanityFaults == {"none", "download_location", "executables"}

\* ServiceCrawler.sanity_check, lines 595-653: a file found at the download
\* path of the water export is reported, else the file is created; then
\* the file is removed
sanity_check_keepsFile(w, fault) ==
    LET v_file == download_veolia_filename
        w1 == IF v_file \in w.disk
              THEN Logged(w, "sanity_check", "already exists, will be removed")
              ELSE w
    IN
    IF fault = "download_location" THEN Raised(w1)
    ELSE IF fault = "executables" THEN Raised(w1)
    ELSE Returned(w1)

sanity_check(w, fault) ==
    LET v_file == download_veolia_filename
        w1 == IF v_file \in w.disk
              THEN Logged(w, "sanity_check", "already exists, will be removed")
              ELSE w
        w2 == [w1 EXCEPT !.disk = @ \ {v_file}]
    IN
    IF fault = "download_location" THEN Raised(w1)
    ELSE IF fault = "executables" THEN Raised(w2)
    ELSE Returned(w2)

\* exit_on_error without workers (lines 2015-2052): no cleanup, sys.exit(2)
exit_without_workers(w, string) ==
    [w |-> Logged(w, "exit_on_error", string), status |-> ExitError]

---------------------------------------------------------------------------
(* The crawler as ServiceCrawler.__init__ leaves it (lines 350-408), before *)
(* any crawl                                                                *)

NotStarted ==
    /\ display = NoObject
    /\ browser = NoObject
    /\ alive = {}
    /\ files_to_cleanup = <<>>
    /\ disk = {}
    /\ log = <<>>
    /\ poll_t = 0
    /\ slept = 0
    /\ artifact = NoObject
    /\ captcha = NoCaptcha
    /\ status = None

NoConfiguration ==
    [timeout |-> 0, tokens |-> NoTokens, screenshot |-> FALSE,
     server_type |-> "ha", absent |-> {}]

\* no run of doWork is modelled
NoRun ==
    /\ step = "off"
    /\ attempt = 0
    /\ args = [debug |-> FALSE, keep_output |-> FALSE, provider |-> "none"]
    /\ configuration = NoConfiguration
    /\ NotStarted

---------------------------------------------------------------------------
(* The state machine: one injector operation at a time on a file.          *)

NoBackend == [kwh |-> NoKwhState, m3 |-> None]

NoPrevious == [kWh |-> None, total |-> 0, date |-> None, m3 |-> None]

NoInjection ==
    /\ pc = "idle"
    /\ op = "none"
    /\ now = 0
    /\ csv_file = <<>>
    /\ json_file = <<>>
    /\ backend = NoBackend
    /\ previous = NoPrevious
    /\ sent = <<>>
    /\ outcome = OK
    /\ runs = <<>>

Init == NoInjection /\ NoRun

HaVeolia(fails) ==
    /\ pc = "idle"
    /\ \E n \in 0..MaxRows, t \in NowTimes, fail \in fails :
       \E s \in [1..n -> WaterStamps], m \in [1..n -> {Mesure, Estime}] :
         LET rows == WaterFile(n, s, m)
             r == HA_update_veolia_device(rows, t, fail)
         IN
         /\ csv_file' = rows
         /\ now' = t
         /\ sent' = r.sent
         /\ outcome' = r.outcome
    /\ pc' = "done"
    /\ op' = "ha_veolia"
    /\ UNCHANGED <<json_file, backend, previous, runs, cvars>>

DzVeolia(fails) ==
    /\ pc = "idle"
    /\ \E n \in 0..MaxRows, t \in NowTimes, fail \in fails :
       \E s \in [1..n -> WaterStamps], m \in [1..n -> {Mesure, Estime}] :
         LET rows == WaterFile(n, s, m)
             r == Dz_update_veolia_device(rows, t, fail)
         IN
         /\ csv_file' = rows
         /\ now' = t
         /\ sent' = r.sent
         /\ outcome' = r.outcome
    /\ pc' = "done"
    /\ op' = "dz_veolia"
    /\ UNCHANGED <<json_file, backend, previous, runs, cvars>>

\* one run of the gas normalizer on file f at time t against backend b
GrdfRun(f, b, t, fail) ==
    LET r == update_grdf_device(f, b, t, fail) IN
    /\ json_file' = f
    /\ now' = t
    /\ sent' = r.sent
    /\ outcome' = r.outcome
    /\ previous' = r.previous
    /\ backend' = Apply(b, r.sent, r.outcome = OK, t)
    /\ runs' = Append(runs, [previous |-> r.previous, outcome |-> r.outcome, sent |-> r.sent])
    /\ pc' = "done"
    /\ op' = "ha_grdf"
    /\ UNCHANGED <<csv_file, cvars>>

\* first run of the gas normalizer
HaGrdf(fails) ==
    /\ pc = "idle"
    /\ \E n \in 0..MaxRecords, b \in BackendStates, t \in NowTimes, fail \in fails :
       \E d \in [1..n -> GasTimes], q \in [1..n -> {Mesure, Estime}] :
         GrdfRun(GasFile(n, d, q), b, t, fail)

\* the next scheduled run finds the same export and the backend as the
\* previous run left it
HaGrdfAgain(fails) ==
    /\ pc = "done"
    /\ op = "ha_grdf"
    /\ Len(runs) < MaxRuns
    /\ \E fail \in fails : GrdfRun(json_file, backend, now, fail)

Reset ==
    /\ pc = "done"
    /\ pc' = "idle"
    /\ op' = "none"
    /\ now' = 0
    /\ csv_file' = <<>>
    /\ json_file' = <<>>
    /\ backend' = NoBackend
    /\ previous' = NoPrevious
    /\ sent' = <<>>
    /\ outcome' = OK
    /\ runs' = <<>>
    /\ UNCHANGED cvars

\* the backend answers every request
Reliable == {0}

Next ==
    \/ HaVeolia(Reliable)
    \/ DzVeolia(Reliable)
    \/ HaGrdf(Reliable)
    \/ HaGrdfAgain(Reliable)
    \/ Reset

Spec == Init /\ [][Next]_vars

---------------------------------------------------------------------------
(* Scheduled runs of the gas normalizer on the exports of one meter: the   *)
(* portal holds one measured record per day, and the export of a run holds *)
(* any of them, in the order of their dates. Each run finds the backend as *)
(* the previous run left it.                                               *)

MaxSeriesRuns == 3

\* the records of the meter: record i ends MaxRecords + 1 - i days before now
Series ==
    [i \in 1..MaxRecords |-> Releve(i, Now - (MaxRecords + 1 - i) * TicksPerDay, Mesure)]

\* the export that holds the records of S, from record i on
RECURSIVE SubFile(_, _)
SubFile(S, i) ==
    IF i > Len(Series) THEN <<>>
    ELSE (IF i \in S THEN <<Series[i]>> ELSE <<>>) \o SubFile(S, i + 1)

\* the backend before the first run: a total written with the date_time of
\* the day before the first record, or of the first record
SeriesBackends ==
    { [kwh |-> KwhState(100, t, t, t, None), m3 |-> 500] :
        t \in {Series[1].dateFinReleve - TicksPerDay, Series[1].dateFinReleve} }

SeriesInit ==
    /\ pc = "idle"
    /\ op = "none"
    /\ now = Now
    /\ csv_file = <<>>
    /\ json_file = <<>>
    /\ backend \in SeriesBackends
    /\ previous = NoPrevious
    /\ sent = <<>>
    /\ outcome = OK
    /\ runs = <<>>
    /\ NoRun

SeriesRun ==
    /\ Len(runs) < MaxSeriesRuns
    /\ \E S \in SUBSET (1..MaxRecords) : GrdfRun(SubFile(S, 1), backend, now, 0)

SeriesNext == SeriesRun

SeriesSpec == SeriesInit /\ [][SeriesNext]_vars

---------------------------------------------------------------------------
(* The gas normalizer against a backend that fails: the fail-th call of    *)
(* open_url raises (lines 1693-1717), after the backend applied the        *)
(* request (the answer is lost or is not JSON) or without applying it. The *)
(* next scheduled run reads the same export.                               *)

\* the call that raises: none, one of the two reads or one of the six writes
Failures == 0..8

FaultyInit ==
    /\ NoInjection
    /\ NoRun

FaultyGrdfRun(f, b, t, fail, applied) ==
    LET r == update_grdf_device(f, b, t, fail) IN
    /\ json_file' = f
    /\ now' = t
    /\ sent' = r.sent
    /\ outcome' = r.outcome
    /\ previous' = r.previous
    /\ backend' = Apply(b, r.sent, r.outcome = OK \/ applied, t)
    /\ runs' = Append(runs, [previous |-> r.previous, outcome |-> r.outcome, sent |-> r.sent])
    /\ pc' = "done"
    /\ op' = "ha_grdf"
    /\ UNCHANGED <<csv_file, cvars>>

FaultyRun ==
    /\ pc = "idle"
    /\ \E S \in SUBSET (1..MaxRecords), b \in BackendStates, fail \in Failures,
          applied \in BOOLEAN :
         FaultyGrdfRun(SubFile(S, 1), b, Now, fail, applied)

FaultyRerun ==
    /\ pc = "done"
    /\ Len(runs) < MaxRuns
    /\ \E fail \in Failures, applied \in BOOLEAN :
         FaultyGrdfRun(json_file, backend, now, fail, applied)

FaultyNext ==
    \/ FaultyRun
    \/ FaultyRerun

FaultySpec == FaultyInit /\ [][FaultyNext]_vars

---------------------------------------------------------------------------
(* doWork from "Check requirements" (line 2246) to the exit of the process *)

MaxTimeout == 2

MaxCleanups == 2

World ==
    [display |-> display, browser |-> browser, alive |-> alive,
     files_to_cleanup |-> files_to_cleanup, disk |-> disk, log |-> log]

SetWorld(w) ==
    /\ display' = w.display
    /\ browser' = w.browser
    /\ alive' = w.alive
    /\ files_to_cleanup' = w.files_to_cleanup
    /\ disk' = w.disk
    /\ log' = w.log

\* the command line: --debug, --keep-output and the provider that runs
\* (--grdf wins over --veolia, line 2258)
Args ==
    [debug : BOOLEAN, keep_output : BOOLEAN, provider : {"grdf", "veolia"}]

\* the parameters the configuration file may lack
Absents == {{}, {PARAM_HA_TOKEN}}

\* the configuration file and --screenshot: the timeout counts for the
\* water download, the solver tokens and the screenshot for the gas login
Configurations(provider) ==
    IF provider = "veolia"
    THEN [timeout : 0..MaxTimeout, tokens : {NoTokens}, screenshot : {FALSE},
          server_type : {"ha", "domoticz"}, absent : Absents]
    ELSE [timeout : {MaxTimeout}, tokens : Tokens, screenshot : BOOLEAN,
          server_type : {"ha", "domoticz"}, absent : Absents]

\* the download folder when the run starts: empty, or with the water
\* export an earlier run left
LeftOvers == {{}, {download_veolia_filename}}

RunInit ==
    /\ NoInjection
    /\ step = "create"
    /\ attempt = 1
    /\ args \in Args
    /\ configuration \in Configurations(args.provider)
    /\ display = NoObject
    /\ browser = NoObject
    /\ alive = {}
    /\ files_to_cleanup = <<>>
    /\ disk \in LeftOvers
    /\ log = <<>>
    /\ poll_t = 0
    /\ slept = 0
    /\ artifact = NoObject
    /\ captcha = NoCaptcha
    /\ status = None

\* the process exits: exit_on_error ended with the status e.status
Exit(e) ==
    /\ SetWorld(e.w)
    /\ status' = e.status
    /\ step' = "exit"

\* lines 2222-2244: the constructors of the crawler and of the injector
CreateObjects ==
    /\ step = "create"
    /\ LET r == load_configuration_items(World, configuration.server_type,
                                         configuration.absent)
       IN IF r.raised
          THEN Exit(exit_without_workers(r.w, "param is missing in configuration file"))
          ELSE /\ step' = "check"
               /\ UNCHANGED <<display, browser, alive, files_to_cleanup, disk, log, status>>
    /\ UNCHANGED <<attempt, args, configuration, poll_t, slept, artifact, captcha, ivars>>

\* lines 2248-2249: crawler.sanity_check() and injector.sanity_check()
SanityCheck ==
    /\ step = "check"
    /\ \E fault \in SanityFaults, quit_raises \in BOOLEAN :
         LET r == sanity_check(World, fault) IN
         IF r.raised
         THEN Exit(exit_on_error(r.w, "sanity_check", args.debug, quit_raises))
         ELSE /\ SetWorld(r.w)
              /\ step' = "init"
              /\ status' = status
    /\ UNCHANGED <<attempt, args, configuration, poll_t, slept, artifact, captcha, ivars>>

\* line 2250: crawler.init()
CrawlerInit ==
    /\ step = "init"
    /\ \E ff \in InitFaults, ch \in InitFaults, quit_raises \in BOOLEAN :
         LET r == init(World, ff, ch) IN
         IF r.raised
         THEN Exit(exit_on_error(r.w, "init", args.debug, quit_raises))
         ELSE /\ SetWorld(r.w)
              /\ step' = "crawl"
              /\ status' = status
    /\ UNCHANGED <<attempt, args, configuration, poll_t, slept, artifact, captcha, ivars>>

\* a crawl attempt ended in the world w: it returned file (ok) or raised
CrawlEnds(w, ok, file, quit_raises) ==
    LET next == AfterCrawl(attempt, ok) IN
    /\ IF next = "exit"
       THEN Exit(exit_on_error(w, "crawl", args.debug, quit_raises))
       ELSE /\ SetWorld(w)
            /\ step' = next
            /\ status' = status
    /\ attempt' = IF next = "crawl" THEN attempt + 1 ELSE attempt
    /\ artifact' = IF ok THEN file ELSE artifact

\* the portals and solvers of a run: the banner does not show, the solver
\* solves at the first poll, refuses the task, or is never ready
RunSolvers ==
    {[submit |-> "accepted", not_ready |-> 0, then |-> "ready"],
     [submit |-> "error", not_ready |-> 0, then |-> "ready"],
     [submit |-> "accepted", not_ready |-> max_loops - 1, then |-> "not_ready"]}

RunEnvs ==
    [isLoggedIn : BOOLEAN, deny_banner : {FALSE}, solver : RunSolvers,
     fault : {"none", "data"}, shot_fails : BOOLEAN]

\* lines 2262 and 2271: crawler.get_gazpar_file()
GetGazparFile(envs) ==
    /\ step = "crawl"
    /\ args.provider = "grdf"
    /\ \E e \in envs, quit_raises \in BOOLEAN :
         LET r == get_gazpar_file(World, args.debug, configuration, e) IN
         /\ captcha' = IF r.captcha.called THEN r.captcha ELSE captcha
         /\ CrawlEnds(r.w, ~r.raised, download_grdf_filename, quit_raises)
    /\ UNCHANGED <<args, configuration, poll_t, slept, ivars>>

\* lines 2285 and 2294: crawler.get_veolia_idf_file() up to the click on the
\* download button (lines 1018-1177); any wait of it may time out
VeoliaNavigate ==
    /\ step = "crawl"
    /\ args.provider = "veolia"
    /\ \E ok \in BOOLEAN, quit_raises \in BOOLEAN :
         IF ok
         THEN /\ step' = "poll"
              /\ poll_t' = configuration.timeout
              /\ slept' = 0
              /\ UNCHANGED <<display, browser, alive, files_to_cleanup, disk, log,
                             status, attempt, artifact>>
         ELSE /\ CrawlEnds(Logged(World, "get_veolia_idf_file", "raised"),
                           FALSE, NoObject, quit_raises)
              /\ UNCHANGED <<poll_t, slept>>
    /\ UNCHANGED <<args, configuration, captcha, ivars>>

\* the browser finishes writing the downloaded file
Download ==
    /\ step \in {"poll", "polled"}
    /\ download_veolia_filename \notin disk
    /\ disk' = disk \cup {download_veolia_filename}
    /\ UNCHANGED <<step, attempt, args, configuration, display, browser, alive,
                   files_to_cleanup, log, poll_t, slept, artifact, captcha, status, ivars>>

\* lines 1185-1187: one turn of the loop, time.sleep(1)
PollSleep ==
    /\ step = "poll"
    /\ PollAgain(poll_t, download_veolia_filename \in disk)
    /\ poll_t' = poll_t - 1
    /\ slept' = slept + 1
    /\ UNCHANGED <<step, attempt, args, configuration, display, browser, alive,
                   files_to_cleanup, disk, log, artifact, captcha, status, ivars>>

\* line 1185: the test of the loop fails
PollEnd ==
    /\ step = "poll"
    /\ ~PollAgain(poll_t, download_veolia_filename \in disk)
    /\ step' = "polled"
    /\ UNCHANGED <<attempt, args, configuration, display, browser, alive,
                   files_to_cleanup, disk, log, poll_t, slept, artifact, captcha,
                   status, ivars>>

\* lines 1188-1195
PollResult ==
    /\ step = "polled"
    /\ \E quit_raises \in BOOLEAN, shot_fails \in BOOLEAN :
         LET v_file == download_veolia_filename
             s == get_screenshot(World, "error.png", shot_fails)
         IN
         IF v_file \in disk
         THEN CrawlEnds([Logged(World, "get_veolia_idf_file", v_file) EXCEPT
                             !.files_to_cleanup = Append(@, v_file)],
                        TRUE, v_file, quit_raises)
         ELSE IF s.raised
         THEN CrawlEnds(Logged(s.w, "get_veolia_idf_file", "raised"),
                        FALSE, NoObject, quit_raises)
         ELSE CrawlEnds(Logged(s.w, "get_veolia_idf_file", "File download timeout"),
                        FALSE, NoObject, quit_raises)
    /\ UNCHANGED <<args, configuration, poll_t, slept, captcha, ivars>>

\* the update operation of the injector for a provider
UpdateOf(provider) ==
    IF provider = "grdf" THEN "update_grdf_device" ELSE "update_veolia_device"

\* how the update ends: it returns, it finds the data unfit, or a request fails
InjectOutcomes == {OK, ErrTooOld, ErrUrl}

\* lines 2274 and 2296: the injector's update on the file of the crawl
Inject ==
    /\ step = "inject"
    /\ \E o \in InjectOutcomes, quit_raises \in BOOLEAN :
         LET w == Logged(World, UpdateOf(args.provider), artifact) IN
         IF o = OK
         THEN /\ SetWorld(w)
              /\ step' = "finish"
              /\ status' = status
         ELSE Exit(exit_on_error(w, o, args.debug, quit_raises))
    /\ UNCHANGED <<attempt, args, configuration, poll_t, slept, artifact, captcha, ivars>>

\* lines 2301-2306: cleanup of the workers, then sys.exit(0)
Finish ==
    /\ step = "finish"
    /\ \E quit_raises \in BOOLEAN :
         LET r == cleanup(World, args.debug, args.keep_output, quit_raises) IN
         /\ SetWorld(r.w)
         /\ status' = IF r.raised THEN ExitUncaught ELSE 0
    /\ step' = "exit"
    /\ UNCHANGED <<attempt, args, configuration, poll_t, slept, artifact, captcha, ivars>>

RunNext ==
    \/ CreateObjects
    \/ SanityCheck
    \/ CrawlerInit
    \/ GetGazparFile(RunEnvs)
    \/ VeoliaNavigate
    \/ Download
    \/ PollSleep
    \/ PollEnd
    \/ PollResult
    \/ Inject
    \/ Finish

RunSpec == RunInit /\ [][RunNext]_vars

\* the interpreter keeps executing the statements of the polling loop
RunLive == RunSpec /\ WF_vars(PollSleep) /\ WF_vars(PollEnd) /\ WF_vars(PollResult)

---------------------------------------------------------------------------
(* doWork from the selection of the contracts (line 2204) to the exit of   *)
(* the process, with the two provider blocks one after the other; each     *)
(* block is one step, its crawl attempts and its injection included.       *)

\* line 2258: args.veolia once the gas block is entered
VeoliaAfterGrdf_kept(veolia) == veolia

VeoliaAfterGrdf(veolia) == FALSE

\* the contracts as the log names them
SelectedNames(grdf, veolia) ==
    IF grdf /\ veolia THEN "grdf,veolia" ELSE IF grdf THEN "grdf" ELSE "veolia"

\* the portal of a block: the session is logged in, the read of the data
\* raises or not
BlockEnvs ==
    [isLoggedIn : {TRUE}, deny_banner : {FALSE}, solver : {NoSolver},
     fault : {"none", "data"}, shot_fails : {FALSE}]

\* get_veolia_idf_file as a whole: it returns the downloaded file or raises
get_veolia_idf_file(w, ok) ==
    LET v_file == download_veolia_filename IN
    IF ok
    THEN Returned([Logged(w, "get_veolia_idf_file", v_file) EXCEPT
                       !.files_to_cleanup = Append(@, v_file),
                       !.disk = @ \cup {v_file}])
    ELSE Raised(Logged(w, "get_veolia_idf_file", "raised"))

SelectInit ==
    /\ NoInjection
    /\ step = "select"
    /\ attempt = 1
    /\ args \in [debug : {FALSE}, keep_output : BOOLEAN, provider : {"none"},
                 grdf : BOOLEAN, veolia : BOOLEAN]
    /\ configuration \in [timeout : {MaxTimeout}, tokens : {NoTokens},
                          screenshot : {FALSE}, server_type : {"ha"}, absent : {{}},
                          veolia_contract : BOOLEAN, grdf_pce : BOOLEAN]
    /\ NotStarted

\* lines 2204-2218: without --veolia and --grdf, the contracts of the
\* configuration are selected; no contract is fatal
SelectContracts ==
    /\ step = "select"
    /\ LET isGetAvailable == ~(args.veolia \/ args.grdf)
           veolia == IF isGetAvailable THEN configuration.veolia_contract ELSE args.veolia
           grdf == IF isGetAvailable THEN configuration.grdf_pce ELSE args.grdf
       IN IF ~(grdf \/ veolia)
          THEN /\ Exit(exit_without_workers(World, "Must select/configure at least one contract"))
               /\ args' = args
          ELSE /\ args' = [args EXCEPT !.grdf = grdf, !.veolia = veolia]
               /\ SetWorld(Logged(World, "selected", SelectedNames(grdf, veolia)))
               /\ step' = "create"
               /\ status' = status
    /\ UNCHANGED <<attempt, configuration, poll_t, slept, artifact, captcha, ivars>>

\* a block ended in the world w: its crawl raised twice, or its update
\* ended with outcome o
BlockEnds(w, crawled, update, file, o, quit_raises, next) ==
    IF ~crawled
    THEN Exit(exit_on_error(w, "crawl", args.debug, quit_raises))
    ELSE IF o # OK
    THEN Exit(exit_on_error(Logged(w, update, file), o, args.debug, quit_raises))
    ELSE /\ SetWorld(Logged(w, update, file))
         /\ step' = next
         /\ status' = status

\* lines 2257-2280: "if args.grdf"
GrdfBlock ==
    /\ step = "crawl"
    /\ IF ~args.grdf
       THEN /\ step' = "water"
            /\ UNCHANGED <<args, attempt, artifact, captcha, display, browser, alive,
                           files_to_cleanup, disk, log, status>>
       ELSE \E e1 \in BlockEnvs, e2 \in BlockEnvs, o \in InjectOutcomes,
               quit_raises \in BOOLEAN :
              LET r1 == get_gazpar_file(World, args.debug, configuration, e1)
                  r == IF r1.raised
                       THEN get_gazpar_file(r1.w, args.debug, configuration, e2)
                       ELSE r1
              IN
              /\ args' = [args EXCEPT !.veolia = VeoliaAfterGrdf(@)]
              /\ attempt' = IF r1.raised THEN 2 ELSE 1
              /\ artifact' = IF r.raised THEN artifact ELSE download_grdf_filename
              /\ captcha' = captcha
              /\ BlockEnds(r.w, ~r.raised, "update_grdf_device", download_grdf_filename,
                           o, quit_raises, "water")
    /\ UNCHANGED <<configuration, poll_t, slept, ivars>>

\* lines 2282-2299: "if args.veolia"
VeoliaBlock ==
    /\ step = "water"
    /\ IF ~args.veolia
       THEN /\ step' = "finish"
            /\ UNCHANGED <<attempt, artifact, display, browser, alive,
                           files_to_cleanup, disk, log, status>>
       ELSE \E ok1 \in BOOLEAN, ok2 \in BOOLEAN, o \in InjectOutcomes,
               quit_raises \in BOOLEAN :
              LET r1 == get_veolia_idf_file(World, ok1)
                  r == IF r1.raised THEN get_veolia_idf_file(r1.w, ok2) ELSE r1
              IN
              /\ attempt' = IF r1.raised THEN 2 ELSE 1
              /\ artifact' = IF r.raised THEN artifact ELSE download_veolia_filename
              /\ BlockEnds(r.w, ~r.raised, "update_veolia_device",
                           download_veolia_filename, o, quit_raises, "finish")
    /\ UNCHANGED <<args, configuration, poll_t, slept, captcha, ivars>>

SelectNext ==
    \/ SelectContracts
    \/ CreateObjects
    \/ SanityCheck
    \/ CrawlerInit
    \/ GrdfBlock
    \/ VeoliaBlock
    \/ Finish

SelectSpec == SelectInit /\ [][SelectNext]_vars

---------------------------------------------------------------------------
(* One call of get_gazpar_file on a crawler that init started with         *)
(* Firefox, against every portal and every solver.                         *)

GasInit ==
    /\ NoInjection
    /\ step = "gas"
    /\ attempt = 1
    /\ args \in [debug : BOOLEAN, keep_output : {FALSE}, provider : {"grdf"}]
    /\ configuration \in [timeout : {MaxTimeout}, tokens : Tokens, screenshot : BOOLEAN,
                          server_type : {"ha"}, absent : {{}}]
    /\ display = FirefoxDisplay
    /\ browser = Firefox
    /\ alive = {FirefoxDisplay, Firefox}
    /\ files_to_cleanup = <<>>
    /\ disk = {}
    /\ log = <<>>
    /\ poll_t = 0
    /\ slept = 0
    /\ artifact = NoObject
    /\ captcha = NoCaptcha
    /\ status = None

GazparCall ==
    /\ step = "gas"
    /\ \E e \in GasEnvs :
         LET r == get_gazpar_file(World, args.debug, configuration, e) IN
         /\ SetWorld(r.w)
         /\ captcha' = r.captcha
         /\ artifact' = IF r.raised THEN artifact ELSE download_grdf_filename
         /\ step' = IF r.raised THEN "raised" ELSE "returned"
    /\ UNCHANGED <<attempt, args, configuration, poll_t, slept, status, ivars>>

GasNext == GazparCall

GasSpec == GasInit /\ [][GasNext]_vars

---------------------------------------------------------------------------
(* A client of ServiceCrawler that calls init once and cleanup up to       *)
(* MaxCleanups times, and catches what they raise.                         *)

SessionInit ==
    /\ NoInjection
    /\ step = "new"
    /\ attempt = 0
    /\ args \in [debug : BOOLEAN, keep_output : {FALSE}, provider : {"none"}]
    /\ configuration = NoConfiguration
    /\ NotStarted

\* the number of calls of a method so far
Calls(l, call) == Cardinality({k \in DOMAIN l : l[k].call = call})

\* the end of a call: it returned or it raised
Ended(r, method) == Logged(r.w, IF r.raised THEN "raise" ELSE "return", method)

SessionStart ==
    /\ step = "new"
    /\ \E ff \in InitFaults, ch \in InitFaults :
         SetWorld(Ended(init(World, ff, ch), "init"))
    /\ step' = "session"
    /\ UNCHANGED <<attempt, args, configuration, poll_t, slept, artifact, captcha,
                   status, ivars>>

SessionCleanup ==
    /\ step = "session"
    /\ Calls(log, "cleanup") < MaxCleanups
    /\ \E keep_output \in BOOLEAN, quit_raises \in BOOLEAN :
         SetWorld(Ended(cleanup(World, args.debug, keep_output, quit_raises), "cleanup"))
    /\ UNCHANGED <<step, attempt, args, configuration, poll_t, slept, artifact,
                   captcha, status, ivars>>

SessionNext ==
    \/ SessionStart
    \/ SessionCleanup

SessionSpec == SessionInit /\ [][SessionNext]_vars

---------------------------------------------------------------------------
(* Vocabulary of the properties                                            *)

HaWaterDone == pc = "done" /\ op = "ha_veolia"

DzWaterDone == pc = "done" /\ op = "dz_veolia"

GasDone == pc = "done" /\ op = "ha_grdf"

NRows == Len(csv_file)

\* calendar days between today and the day of a water row
DaysFromToday(stamp) == Abs((now \div TicksPerDay) - (stamp.t \div TicksPerDay))

\* a water row that is measured, dated, and at most 30 days from today
Publishable(row) ==
    /\ row.method = Mesure
    /\ row.stamp.kind = "date"
    /\ DaysFromToday(row.stamp) <= MaxAgeDays

\* the two updates of Home Assistant that carry a water row
TotalThenPeriod(row) ==
    << [http |-> "POST", req |-> "veolia_total", state |-> row.counter,
        date_time |-> row.stamp],
       [http |-> "POST", req |-> "veolia_period_total", state |-> row.conso,
        date_time |-> row.stamp] >>

\* request r carries a value of water row row
Carries(r, row) ==
    IF r.req \in {"veolia_total"} THEN r.state = row.counter
    ELSE IF r.req \in {"veolia_period_total"} THEN r.state = row.conso
    ELSE IF r.req = "current" THEN r.conso = row.conso
    ELSE r.counter = row.counter \/ r.conso = row.conso

Measured(f) == {i \in DOMAIN f : f[i].qualificationReleve = Mesure}

NewerThan(f, t) == {i \in Measured(f) : f[i].dateFinReleve > t}

Latest(f) ==
    {i \in Measured(f) : \A j \in Measured(f) : f[j].dateFinReleve <= f[i].dateFinReleve}

RECURSIVE SumEnergy(_, _)
SumEnergy(f, S) ==
    IF S = {} THEN 0
    ELSE LET i == CHOOSE x \in S : TRUE
         IN f[i].energieConsomme + SumEnergy(f, S \ {i})

\* the states posted to a sensor among the requests s
Posted(s, sensor) ==
    {s[k].state : k \in {x \in DOMAIN s : s[x].http = "POST" /\ s[x].req = sensor}}

PostCount(s) == Cardinality({k \in DOMAIN s : s[k].http = "POST"})

---------------------------------------------------------------------------
(* Properties                                                              *)

\* C1: no request of a water normalizer (Home Assistant or Domoticz) carries
\* the counter or the period value of a row tagged "Estimé", wherever the
\* row is in the file.
C1_NoEstimatedRowPublished ==
    (HaWaterDone \/ DzWaterDone) =>
        \A k \in DOMAIN sent : \A i \in DOMAIN csv_file :
            csv_file[i].method = Estime => ~Carries(sent[k], csv_file[i])

\* C1 witness: Domoticz published from a file with an estimated row between
\* two measured ones.
C1_Witness ==
    /\ DzWaterDone /\ outcome = OK /\ NRows = 3
    /\ csv_file[2].method = Estime /\ csv_file[1].method = Mesure
    /\ csv_file[3].method = Mesure /\ Len(sent) = 4

\* C2: with a last known state (C, T) and every measured record within 30
\* days of now, the gas normalizer publishes as total kWh C plus the daily
\* energy of the measured records dated strictly after T, and as volume and
\* daily energy the values of a measured record with the latest end date,
\* whatever the order of the records.
C2_GasTotalAndLatest ==
    ( /\ GasDone
      /\ previous.kWh # None
      /\ Measured(json_file) # {}
      /\ \A i \in Measured(json_file) :
            Abs(json_file[i].dateFinReleve - now) <= MaxAgeDays * TicksPerDay )
    => /\ outcome = OK
       /\ PostCount(sent) = 6
       /\ Posted(sent, "gas_consumption_kwh")
            = {previous.kWh + SumEnergy(json_file, NewerThan(json_file, previous.date))}
       /\ Posted(sent, "grdf_pce_kwh") = Posted(sent, "gas_consumption_kwh")
       /\ \E i \in Latest(json_file) :
            /\ Posted(sent, "gas_consumption_m3") = {json_file[i].indexFin}
            /\ Posted(sent, "grdf_pce_m3") = {json_file[i].indexFin}
            /\ Posted(sent, "gas_daily_kwh") = {json_file[i].energieConsomme}
            /\ Posted(sent, "grdf_pce_daily_kwh") = {json_file[i].energieConsomme}
            /\ \A k \in DOMAIN sent :
                 sent[k].http = "POST" => sent[k].date_time = json_file[i].dateFinReleve

\* C2 witness: three measured records, the most recent one first in the
\* file, two of them newer than the last known timestamp.
C2_Witness ==
    /\ GasDone /\ outcome = OK /\ previous.kWh = 100
    /\ Len(json_file) = 3 /\ Measured(json_file) = {1, 2, 3}
    /\ Latest(json_file) = {1}
    /\ Cardinality(NewerThan(json_file, previous.date)) = 2
    /\ Posted(sent, "gas_consumption_kwh") # {100}

\* the total kWh a run published, as a set (empty if it published none)
RunTotal(r) == Posted(r.sent, "gas_consumption_kwh")

\* C3: a second run on the same file, reading the state the first run left
\* in the backend (or the same state, when the first run left it as it
\* was), publishes the same total kWh: the records up to and including the
\* last known timestamp are not added again.
C3_RerunSameTotal ==
    \A n \in 1..(Len(runs) - 1) :
        runs[n].outcome = OK =>
            /\ runs[n + 1].outcome = OK
            /\ RunTotal(runs[n + 1]) = RunTotal(runs[n])

\* C3 witness: the first run added energy to the total, and the second run
\* finds a measured record dated exactly at the timestamp it read.
C3_Witness ==
    /\ GasDone /\ Len(runs) = 2
    /\ runs[1].outcome = OK /\ runs[1].previous.kWh = 100
    /\ RunTotal(runs[1]) # {} /\ RunTotal(runs[1]) # {100}
    /\ runs[2].previous.kWh # 100
    /\ \E i \in Measured(json_file) : json_file[i].dateFinReleve = runs[2].previous.date

\* C4 (as claimed): whenever a water row kept for publication is dated more
\* than 30 days before or after today, the normalizer raises the
\* data-integrity error and sends nothing of that row.
C4_StaleRowRaises ==
    /\ HaWaterDone =>
         LET sel == HaSelected(csv_file) IN
         ( /\ sel # 0
           /\ csv_file[sel].method = Mesure
           /\ csv_file[sel].stamp.kind = "date"
           /\ DaysFromToday(csv_file[sel].stamp) > MaxAgeDays )
         => outcome = ErrTooOld /\ sent = <<>>
    /\ DzWaterDone =>
         \A i \in DOMAIN csv_file :
           ( /\ csv_file[i].method = Mesure
             /\ csv_file[i].stamp.kind = "date"
             /\ DaysFromToday(csv_file[i].stamp) > MaxAgeDays )
           => /\ outcome = ErrTooOld
              /\ \A k \in DOMAIN sent : ~Carries(sent[k], csv_file[i])

\* C5 (as claimed): the gas normalizer raises the data-integrity error and
\* publishes nothing whenever the file holds a measured record that fails
\* the 30-day test, wherever that record is in the file.
C5_StaleRecordRaises ==
    ( /\ GasDone
      /\ \E i \in Measured(json_file) :
            Abs(TimedeltaDays(json_file[i].dateFinReleve - now)) > MaxAgeDays )
    => outcome = ErrTooOld /\ PostCount(sent) = 0

\* C6 (as claimed): when the row kept by the Home Assistant water normalizer
\* has a date that does not start with "2", the run ends with a non-zero
\* status.
C6_BadPrefixIsFatal ==
    HaWaterDone =>
        LET sel == HaSelected(csv_file) IN
        ( /\ sel # 0
          /\ csv_file[sel].method = Mesure
          /\ FirstChar(csv_file[sel].stamp) # "2" )
        => ExitStatus(outcome) # 0

\* index of the most recent measured row of the water file (0 if none)
LastMeasured ==
    IF \E i \in DOMAIN csv_file : csv_file[i].method = Mesure
    THEN CHOOSE i \in DOMAIN csv_file :
            /\ csv_file[i].method = Mesure
            /\ \A j \in DOMAIN csv_file : j > i => csv_file[j].method = Estime
    ELSE 0

\* C7 (as claimed): in a file of three rows or more whose most recent
\* measured row is publishable, Home Assistant gets the values of that row,
\* however many estimated rows follow it.
C7_SkipsAllTrailingEstimated ==
    ( /\ HaWaterDone
      /\ NRows >= 3
      /\ LastMeasured >= 1
      /\ Publishable(csv_file[LastMeasured]) )
    => sent = TotalThenPeriod(csv_file[LastMeasured])

C9_Original ==
    ( /\ HaWaterDone
      /\ NRows >= 1
      /\ Publishable(csv_file[NRows]) )
    => sent = TotalThenPeriod(csv_file[NRows])

\* C9 (amended): the same, for a file of at least two rows, so that the
\* last row has a predecessor.
C9_LastRowPublished ==
    ( /\ HaWaterDone
      /\ NRows >= 2
      /\ Publishable(csv_file[NRows]) )
    => outcome = OK /\ sent = TotalThenPeriod(csv_file[NRows])

\* C9 witness: a two-row file of measured rows, the last one 30 days old,
\* published as total then period.
C9_Witness ==
    /\ HaWaterDone /\ NRows = 2 /\ outcome = OK
    /\ csv_file[1].method = Mesure /\ csv_file[2].method = Mesure
    /\ DaysFromToday(csv_file[2].stamp) = MaxAgeDays
    /\ Len(sent) = 2
    /\ sent[1].req = "veolia_total" /\ sent[2].req = "veolia_period_total"

\* C10: when no record of the gas export is tagged "Mesuré", the gas
\* normalizer posts no state update and returns without error.
C10_NoMeasuredNoUpdate ==
    (GasDone /\ Measured(json_file) = {}) => outcome = OK /\ PostCount(sent) = 0

\* C10 witness: a run on a file of three records, none measured, one of
\* them failing the 30-day test and one newer than the last known timestamp.
C10_Witness ==
    /\ GasDone /\ Len(json_file) = 3 /\ Measured(json_file) = {}
    /\ previous.kWh = 100
    /\ \E i \in DOMAIN json_file : json_file[i].dateFinReleve > previous.date
    /\ \E i \in DOMAIN json_file :
          Abs(TimedeltaDays(json_file[i].dateFinReleve - now)) > MaxAgeDays
    /\ outcome = OK

---------------------------------------------------------------------------
(* Vocabulary of the properties of the run and of the crawler              *)

\* the process has exited
Exited == status /= None

Has(call, arg) == \E k \in DOMAIN log : log[k] = Ev(call, arg)

CrawlCalls == {"get_gazpar_file", "get_veolia_idf_file"}

UpdateCalls == {"update_grdf_device", "update_veolia_device"}

Files == {download_veolia_filename, download_grdf_filename}

\* the crawl attempts that ended, and the calls of the injector's update
Crawls == {k \in DOMAIN log : log[k].call \in CrawlCalls}

Updates == {k \in DOMAIN log : log[k].call \in UpdateCalls}

\* crawler.init() returned: doWork went on to the crawl
BrowserSessionStarted == Crawls /= {}

\* the last call of cleanup, and whether a call has just ended
LastCleanup == CHOOSE k \in DOMAIN log : log[k].call = "cleanup" /\ \A j \in DOMAIN log : (log[j].call = "cleanup" => j <= k)

CleanupEnded ==
    /\ Len(log) > 0
    /\ log[Len(log)].arg = "cleanup"
    /\ log[Len(log)].call \in {"return", "raise"}

---------------------------------------------------------------------------
\* C11: on every exit path of doWork reached after the browser session was
\* started, cleanup of the crawler has been invoked when the process exits,
\* and no browser process or virtual display started by the run is alive.
C11_CleanupBeforeEveryExit ==
    (Exited /\ BrowserSessionStarted) => (Calls(log, "cleanup") >= 1 /\ alive = {})

\* C12: when cleanup was called on a started session, it has signalled the
\* browser process and the display is stopped by the time it returns or
\* raises.
C12_CleanupTerminatesBoth ==
    (CleanupEnded /\ Calls(log, "cleanup") = 1 /\ Has("return", "init"))
        => /\ Has("kill", browser)
           /\ display \notin alive

\* C13: a second call of cleanup returns, and neither quits nor signals the
\* browser process that the first call terminated.
C13_SecondCleanupIsNoop ==
    (CleanupEnded /\ Calls(log, "cleanup") = 2 /\ Has("return", "init"))
        => /\ log[Len(log)].call = "return"
           /\ \A k \in DOMAIN log : k > LastCleanup => log[k].call \notin {"quit", "kill"}

\* C14: at every point of a run at most one virtual display and at most one
\* browser process are alive, and each of them is the one the crawler's
\* fields hold, so that cleanup stops it.
C14_OneDisplayOneBrowser ==
    /\ Cardinality(alive \cap Displays) <= 1
    /\ Cardinality(alive \cap Browsers) <= 1
    /\ alive \subseteq {display, browser}

\* C15: init starts Chromium only after init_firefox raised; when both
\* raise, the run exits with status 2 after the crawler's cleanup and
\* without any crawl attempt or update.
C15_FirefoxThenChromiumElseFatal ==
    /\ \A k \in DOMAIN log :
         log[k].call = "init_chromium"
            => /\ k >= 3
               /\ log[k - 1] = Ev("raise", "init_firefox")
               /\ log[k - 2].call = "init_firefox"
    /\ (Exited /\ Has("exit_on_error", "init"))
         => /\ status = ExitError
            /\ Calls(log, "cleanup") = 1
            /\ Crawls = {}
            /\ Updates = {}

\* C16: when the process has exited, a file the crawler registered still
\* exists if --keep-output was given, and no longer exists if neither
\* --keep-output nor --debug was given.
C16_ArtifactKeptOrDeleted ==
    Exited =>
        \A i \in DOMAIN files_to_cleanup :
            /\ args.keep_output => files_to_cleanup[i] \in disk
            /\ (~args.keep_output /\ ~args.debug) => files_to_cleanup[i] \notin disk

\* C17: the injector's update is called at most once in a run, for the
\* provider whose crawl ran, after a crawl attempt of that provider
\* returned a file and on that file; a run that exits with status 0 called
\* it exactly once.
C17_UpdateOnceAfterCrawl ==
    /\ Cardinality(Updates) <= 1
    /\ \A k \in Updates :
         /\ log[k].call = UpdateOf(args.provider)
         /\ log[k].arg \in Files
         /\ \E j \in Crawls :
              /\ j < k
              /\ log[j].arg = log[k].arg
              /\ \A i \in Crawls : i <= j
    /\ status = 0 => Cardinality(Updates) = 1

\* C17 witness: a run whose first crawl attempt raised, whose second
\* returned the file, and which updated the backend and exited with 0.
C17_Witness ==
    /\ status = 0
    /\ attempt = 2
    /\ Cardinality(Crawls) = 2
    /\ \E k \in Updates : log[k].arg = artifact /\ artifact \in Files

\* C18: a run makes at most two crawl attempts, the second only after the
\* first raised; when the second raises too the run exits with status 2
\* and never calls the injector; nothing is attempted again after the
\* injector's update was called.
C18_AtMostOneRetry ==
    /\ Cardinality(Crawls) <= 2
    /\ \A j \in Crawls, k \in Crawls : j < k => log[j].arg \notin Files
    /\ (Exited /\ Cardinality(Crawls) = 2 /\ \A k \in Crawls : log[k].arg \notin Files)
         => (status = ExitError /\ Updates = {})
    /\ \A k \in Updates : \A j \in Crawls \cup Updates : j <= k

\* what one step of the download polling does: the loop sleeps one second
\* at a time and at most timeout times; when it ended, the file is
\* registered and returned if it exists, and else a screenshot is taken,
\* "File download timeout" is raised and nothing is registered.
PollingStep ==
    LET v_file == download_veolia_filename
        n == Len(log')
    IN
    /\ step' = "poll" => (poll_t' >= 0 /\ poll_t' + slept' = configuration'.timeout)
    /\ step' = "polled" => slept' <= configuration'.timeout
    /\ (step = "poll" /\ slept' /= slept) => (slept' = slept + 1 /\ poll_t' = poll_t - 1)
    /\ (step = "polled" /\ step' /= "polled") =>
         IF v_file \in disk
         THEN /\ files_to_cleanup' = Append(files_to_cleanup, v_file)
              /\ artifact' = v_file
              /\ log'[Len(log) + 1] = Ev("get_veolia_idf_file", v_file)
         ELSE /\ files_to_cleanup' = files_to_cleanup
              /\ artifact' = artifact
              /\ log'[Len(log) + 1] = Ev("get_screenshot", "error.png")
              /\ log'[Len(log) + 2] = Ev("get_veolia_idf_file", "File download timeout")

\* C19: the download polling of get_veolia_idf_file sleeps at most timeout
\* times and always ends; it returns the file when the file exists at the
\* end of the polling, and else takes a screenshot and raises "File
\* download timeout" without registering a file.
C19_PollingTerminates ==
    /\ [][PollingStep]_vars
    /\ (step \in {"poll", "polled"}) ~> (step \notin {"poll", "polled"})

\* C19 witness: the download never completed; the loop slept timeout > 0
\* times and the attempt ended with the screenshot and the timeout error.
C19_Witness ==
    /\ configuration.timeout > 0
    /\ slept = configuration.timeout
    /\ download_veolia_filename \notin disk
    /\ Has("get_screenshot", "error.png")
    /\ Has("get_veolia_idf_file", "File download timeout")

\* C20: when neither solver token is configured (each absent or empty),
\* resolve_captcha2 returns None, sends no request to a solver service and
\* runs no script in the browser.
C20_NoCredentialNoSolver ==
    (captcha.called /\ \A m \in DOMAIN configuration.tokens :
                          configuration.tokens[m] \in {NoObject, ""})
        => /\ captcha.result = NoObject
           /\ captcha.requests = 0
           /\ captcha.scripts = 0

\* C20 witness: resolve_captcha2 was called with one token absent and the
\* other one empty.
C20_Witness ==
    /\ captcha.called
    /\ configuration.tokens[PARAM_CAPMONSTER_TOKEN] = ""
    /\ configuration.tokens[PARAM_2CAPTCHA_TOKEN] = NoObject
    /\ captcha.result = NoObject

---------------------------------------------------------------------------
(* resolve_captcha2 and get_gazpar_file                                    *)

\* the solver accepted the task: the polling loop started
TaskAccepted ==
    /\ captcha.called
    /\ captcha.method /= NoObject
    /\ captcha.solver.submit = "accepted"

BothConfigured ==
    \A m \in DOMAIN configuration.tokens : configuration.tokens[m] \notin {NoObject, ""}

\* C21: when both solver tokens are configured, resolve_captcha2 uses
\* capmonster, the first of the priority order, and every request of the
\* attempt goes to that service, none to 2captcha, also when it fails.
C21_OnlyFirstSolverUsed ==
    (captcha.called /\ BothConfigured)
        => /\ captcha.method = PARAM_CAPMONSTER_TOKEN
           /\ captcha.requests > 0
           /\ captcha.services = {"api.capmonster.cloud"}

\* C21 witness: both tokens are configured, capmonster refused the task and
\* resolve_captcha2 returned None after its single request.
C21_Witness ==
    /\ captcha.called
    /\ BothConfigured
    /\ captcha.solver.submit = "error"
    /\ captcha.result = NoObject
    /\ captcha.requests = 1
    /\ "2captcha.com" \notin captcha.services

C23_ErrorEndsPolling ==
    TaskAccepted
        => \A i \in 1..captcha.polls :
             AnswerAt(captcha.solver, i) = "error"
                => (captcha.polls = i /\ captcha.result = NoObject)

\* C24: whatever the solver answers, resolve_captcha2 returns (None or the
\* token), it does not raise, and get_gazpar_file goes on to one of its two
\* paths.
C24_SolverErrorsNeverRaise ==
    captcha.called
        => /\ ~captcha.raised
           /\ Has("resolve_captcha2", captcha.result)

\* the positions of an event in the call log
At(call, arg) == {k \in DOMAIN log : log[k] = Ev(call, arg)}

\* C25: in the gas login, a token returned by the solver means the token
\* script ran and the challenge checkbox is not clicked; None means no
\* token script, and the checkbox is clicked and followed by the fixed
\* delay (30 s in debug mode, else 2 s); the click on Connexion comes only
\* after the path that was taken.
C25_OneCaptchaPathBeforeSubmit ==
    /\ (captcha.called /\ captcha.result /= NoObject)
          => /\ Has("execute_script", "FILL_CAPTCHA")
             /\ ~Has("click", "recaptcha-checkbox-border")
    /\ (captcha.called /\ captcha.result = NoObject)
          => ~Has("execute_script", "FILL_CAPTCHA")
    /\ \A k \in At("click", "Connexion") :
          /\ captcha.called
          /\ IF captcha.result /= NoObject
             THEN \E j \in 1..(k - 1) : log[j] = Ev("execute_script", "FILL_CAPTCHA")
             ELSE \E j \in 1..(k - 2) :
                    /\ log[j] = Ev("click", "recaptcha-checkbox-border")
                    /\ log[j + 1] = Ev("sleep", IF args.debug THEN "30" ELSE "2")

\* C25 witness: in debug mode the solver returned None; the checkbox was
\* clicked, the workflow slept 30 s and then clicked Connexion.
C25_Witness ==
    /\ args.debug
    /\ captcha.called
    /\ captcha.method /= NoObject
    /\ captcha.result = NoObject
    /\ Has("click", "recaptcha-checkbox-border")
    /\ Has("sleep", "30")
    /\ Has("click", "Connexion")

\* C26: every run of doWork that ended has exit status 0 or 2.
C26_ExitStatusZeroOrTwo ==
    Exited => status \in {0, 2}

\* C27: when the configuration file lacks a mandatory parameter of the
\* injector (ha_token with the Home Assistant backend), no display and no
\* browser is ever started, no portal is requested, and the only step the
\* run takes is the fatal exit with status 2.
C27_MissingParameterFatalBeforeBrowser ==
    (configuration.server_type = "ha" /\ PARAM_HA_TOKEN \in configuration.absent)
        => /\ display = NoObject
           /\ browser = NoObject
           /\ alive = {}
           /\ \A k \in DOMAIN log :
                log[k].call \notin CrawlCalls \cup {"init_firefox", "init_chromium", "browser.get"}
           /\ step \in {"create", "exit"}
           /\ step = "exit" => (status = 2 /\ Len(log) = 1 /\ log[1].call = "exit_on_error")

\* C27 witness: the run with ha_token missing ended with the fatal error.
C27_Witness ==
    /\ configuration.server_type = "ha"
    /\ PARAM_HA_TOKEN \in configuration.absent
    /\ step = "exit"
    /\ status = 2
    /\ Has("exit_on_error", "param is missing in configuration file")

\* C28: get_screenshot returns whether or not the image could be written:
\* what follows it is the same in both cases, the download-timeout error
\* after error.png, the click on Connexion after the login screenshot.
C28_ScreenshotNeverPropagates ==
    \A k \in DOMAIN log :
        log[k].call = "get_screenshot"
           => /\ k < Len(log)
              /\ log[k + 1] = IF log[k].arg = "error.png"
                              THEN Ev("get_veolia_idf_file", "File download timeout")
                              ELSE Ev("click", "Connexion")

\* C28 witness: the screenshot of the download timeout failed (no image on
\* the disk) and the attempt ended with the download-timeout error.
C28_Witness ==
    /\ Has("get_screenshot", "error.png")
    /\ "error.png" \notin disk
    /\ Has("get_veolia_idf_file", "File download timeout")

\* C29: when get_gazpar_file finds the session logged in, its next request
\* is the data endpoint: no credentials typed, no solver, no click on
\* Connexion; when not logged in, the data endpoint is requested only
\* after the click on Connexion.
C29_LoggedInGoesToData ==
    /\ Has("isLoggedIn", "True")
          => /\ Len(log) >= 3
             /\ log[3] = Ev("browser.get", data_url)
             /\ ~captcha.called
             /\ \A k \in DOMAIN log :
                  log[k].call \notin {"send_keys", "click", "execute_script", "resolve_captcha2"}
    /\ Has("isLoggedIn", "False")
          => \A k \in At("browser.get", data_url) :
               \E j \in 1..(k - 1) : log[j] = Ev("click", "Connexion")

\* C29 witness: the session was logged in and get_gazpar_file returned the
\* file after the request of the data endpoint.
C29_Witness ==
    /\ Has("isLoggedIn", "True")
    /\ Has("browser.get", data_url)
    /\ step = "returned"
    /\ artifact = download_grdf_filename

---------------------------------------------------------------------------
\* C30: when the backend holds no kWh total but holds an m3 total, the
\* total the gas normalizer publishes is that m3 total plus the daily
\* energy of the measured records newer than the last known timestamp.
C30_TotalSeededFromVolume ==
    ( /\ GasDone
      /\ outcome = OK
      /\ previous.kWh = None
      /\ previous.m3 # None
      /\ Posted(sent, "gas_consumption_kwh") # {} )
    => Posted(sent, "gas_consumption_kwh")
         = {previous.m3 + SumEnergy(json_file, NewerThan(json_file, previous.date))}

\* C32: every state update the gas normalizer writes carries a date_time
\* strictly later than the last known timestamp it read, and it writes
\* nothing when no measured record is dated strictly after that timestamp.
C32_OnlyForwardProgress ==
    GasDone =>
        \A k \in DOMAIN sent :
            sent[k].http = "POST"
               => /\ sent[k].date_time > previous.date
                  /\ NewerThan(json_file, previous.date) # {}

\* C33: when a normalizer raised the 30-day data-integrity error, it sent
\* no update to the backend before raising (the gas normalizer only its
\* reads), whatever the order of the rows.
C33_NoUpdateBeforeStaleError ==
    /\ ((HaWaterDone \/ DzWaterDone) /\ outcome = ErrTooOld) => sent = <<>>
    /\ (GasDone /\ outcome = ErrTooOld) => PostCount(sent) = 0

\* C37: when the solver returned a token, the value written into the field
\* g-recaptcha-response and the argument passed to the validation callback
\* are both that token, which is also what resolve_captcha2 returns.
C37_TokenFilledAndValidated ==
    (captcha.called /\ captcha.solver.then = "ready" /\ captcha.result /= NoObject)
        => /\ captcha.field = captcha.result
           /\ captcha.callback = captcha.result

\* the total kWh a run published, and what the run added to the total it
\* read; the energies of the records are distinct powers of two, so the
\* sum tells which records were added
PublishedBy(run) ==
    IF Posted(run.sent, "gas_consumption_kwh") = {} THEN run.previous.total
    ELSE CHOOSE x \in Posted(run.sent, "gas_consumption_kwh") : TRUE

AddedIn(run, i) ==
    ((PublishedBy(run) - run.previous.total) \div EnergyOf(i)) % 2 = 1

\* C31: over a sequence of runs that each read the total and date_time the
\* previous run wrote, on exports that are subsets of the same daily
\* measured records, the energy of a record is added to the published total
\* in at most one run.
C31_EachRecordAddedOnce ==
    \A i \in DOMAIN Series :
        Cardinality({k \in DOMAIN runs : AddedIn(runs[k], i)}) <= 1

\* the total an uninterrupted first run publishes: the total it read plus
\* the energy of the measured records newer than the timestamp it read
Uninterrupted ==
    runs[1].previous.total
      + SumEnergy(json_file, NewerThan(json_file, runs[1].previous.date))

\* the first run was interrupted by the backend while writing its updates
Interrupted ==
    /\ Len(runs) >= 2
    /\ runs[1].outcome = ErrUrl
    /\ PostCount(runs[1].sent) >= 1

\* C34: when a backend error interrupts the six updates of a run, the next
\* run, when its read is answered, reads either the total and date_time the
\* interrupted run read or the ones it meant to write, never a mix, and
\* when it completes on the same file it publishes the total of an
\* uninterrupted run.
C34_InterruptedRunIsRepeatable ==
    Interrupted
        => /\ runs[2].previous.date # None
                 => \/ /\ runs[2].previous.total = runs[1].previous.total
                       /\ runs[2].previous.date = runs[1].previous.date
                    \/ /\ runs[2].previous.total = Uninterrupted
                       /\ runs[2].previous.date = runs[1].sent[Len(runs[1].sent)].date_time
           /\ (runs[2].outcome = OK /\ PostCount(runs[2].sent) > 0)
                 => Posted(runs[2].sent, "gas_consumption_kwh") = {Uninterrupted}

\* C34 witness: the write of the per-meter kWh sensor, the last of the six,
\* failed after the generic kWh sensor got the total of a newer record;
\* the next run published that same total.
C34_Witness ==
    /\ Interrupted
    /\ PostCount(runs[1].sent) = 6
    /\ Uninterrupted > runs[1].previous.total
    /\ runs[2].previous.total = Uninterrupted
    /\ runs[2].outcome = OK
    /\ Posted(runs[2].sent, "gas_consumption_kwh") = {Uninterrupted}

\* C35: from the end of sanity_check to the moment the water crawl starts
\* polling, no file exists at the download path of the water export: a
\* file an earlier run left was removed before the browser was started.
C35_NoStaleArtifactWhenPolling ==
    step \in {"init", "crawl"} => download_veolia_filename \notin disk

\* C35 witness: sanity_check found and removed the file of an earlier run,
\* and the water crawl then detected the file it downloaded itself.
C35_Witness ==
    /\ Has("sanity_check", "already exists, will be removed")
    /\ args.provider = "veolia"
    /\ slept > 0
    /\ Has("get_veolia_idf_file", download_veolia_filename)

\* the calls of the water workflow and of the gas workflow
WaterCalls == {k \in DOMAIN log : log[k].call \in {"get_veolia_idf_file", "update_veolia_device"}}

GasCalls == {k \in DOMAIN log : log[k].call \in {"get_gazpar_file", "update_grdf_device"}}

GasSelected == Has("selected", "grdf") \/ Has("selected", "grdf,veolia")

====
